---- MODULE Spec2Model ----
(***************************************************************************)
(* The chat-intent edge function of the clinic helper application:         *)
(* detectIntent, generateResponse and the serve handler that wraps them.   *)
(* Text is modelled at the level of characters (TLA+ strings); regular     *)
(* expressions are modelled by what their matcher accepts.                 *)
(***************************************************************************)
EXTENDS Integers, Sequences, FiniteSets, TLC

(***************************************************************************)
(* Strings                                                                 *)
(***************************************************************************)
Char(s, i) == SubSeq(s, i, i)

upperChars == "ABCDEFGHIJKLMNOPQRSTUVWXYZ"
lowerChars == "abcdefghijklmnopqrstuvwxyz"
digitChars == "0123456789"

CharsOf(s) == {Char(s, i) : i \in 1..Len(s)}

\* String.prototype.toLowerCase on one character.
LowerOf == [c \in CharsOf(upperChars) |->
              Char(lowerChars, CHOOSE i \in 1..Len(upperChars) : Char(upperChars, i) = c)]

LowerChar(c) == IF c \in DOMAIN LowerOf THEN LowerOf[c] ELSE c

RECURSIVE toLowerCase(_)
toLowerCase(s) ==
  IF s = "" THEN ""
  ELSE LowerChar(Char(s, 1)) \o toLowerCase(SubSeq(s, 2, Len(s)))

\* String.prototype.includes: t occurs in s as a contiguous substring.
includes(s, t) ==
  \E i \in 1..(Len(s) - Len(t) + 1) : SubSeq(s, i, i + Len(t) - 1) = t

\* String.prototype.trim removes leading and trailing white space.
WhiteSpace == {" ", "\t", "\n", "\r", "\f"}

RECURSIVE trimStart(_)
trimStart(s) ==
  IF s # "" /\ Char(s, 1) \in WhiteSpace THEN trimStart(SubSeq(s, 2, Len(s))) ELSE s

RECURSIVE trimEnd(_)
trimEnd(s) ==
  IF s # "" /\ Char(s, Len(s)) \in WhiteSpace THEN trimEnd(SubSeq(s, 1, Len(s) - 1)) ELSE s

trim(s) == trimEnd(trimStart(s))

(***************************************************************************)
(* Regular expressions of the form \b(a1|a2|...)\b and                     *)
(* \b(a1|...)\b.*\b(b1|...)\b, flag i.                                     *)
(***************************************************************************)
\* \w of the regular expression syntax.
WordChars == CharsOf(upperChars) \cup CharsOf(lowerChars) \cup CharsOf(digitChars) \cup {"_"}

\* The characters "." does not match.
LineTerminators == {"\n", "\r"}

\* Is the character at position p (1-based) a word character; positions
\* outside the string count as non-word.
WordAt(s, p) == p >= 1 /\ p <= Len(s) /\ Char(s, p) \in WordChars

\* \b holds between positions p and p+1.
Boundary(s, p) == WordAt(s, p) # WordAt(s, p + 1)

\* Alternative a matches s at positions i..i+Len(a)-1 with \b on both sides.
WordMatchAt(s, a, i) ==
  /\ i + Len(a) - 1 <= Len(s)
  /\ SubSeq(s, i, i + Len(a) - 1) = a
  /\ Boundary(s, i - 1)
  /\ Boundary(s, i + Len(a) - 1)

\* End positions of the matches of \b(alts)\b in s.
MatchEnds(s, alts) ==
  {i + Len(a) - 1 : <<i, a>> \in {m \in (1..Len(s)) \X alts : WordMatchAt(s, m[2], m[1])}}

\* Positions just before the matches of \b(alts)\b in s.
MatchStarts(s, alts) ==
  {m[1] - 1 : m \in {m \in (1..Len(s)) \X alts : WordMatchAt(s, m[2], m[1])}}

\* The test that takes the two groups of a pattern in any order.
RegexTestAnyOrder(re, str) ==
  LET s == toLowerCase(str) IN
  IF re.second = {}
  THEN \E i \in 1..Len(s) : \E a \in re.first : WordMatchAt(s, a, i)
  ELSE MatchEnds(s, re.first) # {} /\ MatchStarts(s, re.second) # {}

\* RegExp.prototype.test for a pattern [first, second]: second = {} is the
\* single group \b(first)\b, otherwise \b(first)\b.*\b(second)\b. The flag i
\* compares case-insensitively.
RegexTest(re, str) ==
  LET s == toLowerCase(str) IN
  IF re.second = {}
  THEN \E i \in 1..Len(s) : \E a \in re.first : WordMatchAt(s, a, i)
  ELSE \E j \in MatchEnds(s, re.first) : \E k \in MatchStarts(s, re.second) :
         /\ k >= j
         /\ \A p \in (j + 1)..k : Char(s, p) \notin LineTerminators

\* The matches <<first position, last position>> of \b(alts)\b in s.
WordMatches(s, alts) ==
  {<<m[1], m[1] + Len(m[2]) - 1>> :
     m \in {m \in (1..Len(s)) \X alts : WordMatchAt(s, m[2], m[1])}}

\* The matches <<first position, last position>> of a pattern in str.
RegexSpans(re, str) ==
  LET s == toLowerCase(str) IN
  IF re.second = {} THEN WordMatches(s, re.first)
  ELSE {<<x[1], y[2]>> :
          <<x, y>> \in {z \in WordMatches(s, re.first) \X WordMatches(s, re.second) :
                          /\ z[2][1] - 1 >= z[1][2]
                          /\ \A p \in (z[1][2] + 1)..(z[2][1] - 1) :
                               Char(s, p) \notin LineTerminators}}

\* The flags with g added: a global pattern keeps its position between calls.
patternFlagsGlobal == "gi"

\* The flags with y added: a sticky pattern keeps its position between calls.
patternFlagsSticky == "iy"

\* The flags every literal of intentPatterns is written with.
patternFlags == "i"

\* The pattern objects read and write their lastIndex.
Stateful == includes(patternFlags, "g") \/ includes(patternFlags, "y")

\* The matches test() can find from lastIndex li (an index counted from 0):
\* those starting at li for a sticky pattern, at or after li for a global one.
SpansFrom(re, str, li) ==
  {sp \in RegexSpans(re, str) :
     IF includes(patternFlags, "y") THEN sp[1] - 1 = li ELSE sp[1] - 1 >= li}

\* RegExp.prototype.test(str) of a pattern object whose lastIndex is li: a
\* pattern without g and y matches anywhere; otherwise the leftmost match
\* from li is taken.
RegexFound(re, str, li) ==
  IF ~Stateful THEN RegexTest(re, str)
  ELSE li <= Len(str) /\ SpansFrom(re, str, li) # {}

\* The lastIndex of the pattern object after that call of test(): untouched
\* without g and y; otherwise the end of the match (the longest from the
\* leftmost start), or 0 when nothing matched.
RegexLastIndex(re, str, li) ==
  IF ~Stateful THEN li
  ELSE IF ~RegexFound(re, str, li) THEN 0
  ELSE LET from == SpansFrom(re, str, li)
           left == {sp \in from : \A other \in from : sp[1] <= other[1]}
       IN (CHOOSE sp \in left : \A other \in left : other[2] <= sp[2])[2]

(***************************************************************************)
(* Intent detection patterns                                               *)
(***************************************************************************)
\* intentPatterns with book_appointment reduced to its first group.
intentPatternsOneGroup ==
  [greeting |->
     [first |-> {"hi", "hello", "hey", "good morning", "good afternoon", "good evening"},
      second |-> {}],
   book_appointment |->
     [first |-> {"book", "schedule", "appointment", "visit", "reserve", "slot", "make"},
      second |-> {}],
   doctor_search |->
     [first |-> {"find", "search", "show", "list", "which", "doctor", "doctors",
                 "cardiologist", "orthopedist", "pediatrician", "neurologist",
                 "surgeon", "specialist"},
      second |-> {}],
   faq_hours |->
     [first |-> {"visiting hour", "visiting hours", "opening hour", "opening hours",
                 "timing", "timings", "open", "close", "when", "hours"},
      second |-> {}],
   symptom_triage |->
     [first |-> {"chest pain", "sweating", "dizzy", "faint", "fever", "swollen",
                 "bleeding", "cough", "blood", "breath", "abdominal pain", "symptom"},
      second |-> {}],
   cancel_appointment |->
     [first |-> {"cancel", "remove"},
      second |-> {"appointment", "booking"}],
   emergency |->
     [first |-> {"emergency", "urgent", "911", "ambulance", "critical"},
      second |-> {}]]

intentPatterns ==
  [greeting |->
     [first |-> {"hi", "hello", "hey", "good morning", "good afternoon", "good evening"},
      second |-> {}],
   book_appointment |->
     [first |-> {"book", "schedule", "appointment", "visit", "reserve", "slot", "make"},
      second |-> {"appointment", "doctor", "visit"}],
   doctor_search |->
     [first |-> {"find", "search", "show", "list", "which", "doctor", "doctors",
                 "cardiologist", "orthopedist", "pediatrician", "neurologist",
                 "surgeon", "specialist"},
      second |-> {}],
   faq_hours |->
     [first |-> {"visiting hour", "visiting hours", "opening hour", "opening hours",
                 "timing", "timings", "open", "close", "when", "hours"},
      second |-> {}],
   symptom_triage |->
     [first |-> {"chest pain", "sweating", "dizzy", "faint", "fever", "swollen",
                 "bleeding", "cough", "blood", "breath", "abdominal pain", "symptom"},
      second |-> {}],
   cancel_appointment |->
     [first |-> {"cancel", "remove"},
      second |-> {"appointment", "booking"}],
   emergency |->
     [first |-> {"emergency", "urgent", "911", "ambulance", "critical"},
      second |-> {}]]

\* The emergency symptoms without "chest pain".
emergencySymptomsNoChestPain ==
  {"difficulty breathing", "shortness of breath", "coughing blood",
   "severe bleeding", "severe abdominal pain", "unconscious", "stroke", "heart attack"}

\* Emergency symptoms that require immediate attention.
emergencySymptoms ==
  {"chest pain", "difficulty breathing", "shortness of breath", "coughing blood",
   "severe bleeding", "severe abdominal pain", "unconscious", "stroke", "heart attack"}

\* The six ordinary patterns of detectIntent, tested in the given order.
FirstPattern(order, lowerMessage) ==
  LET hits == {i \in 1..Len(order) : RegexTest(intentPatterns[order[i]], lowerMessage)}
  IN IF hits = {} THEN "fallback"
     ELSE order[CHOOSE i \in hits : \A j \in hits : i <= j]

\* detectIntent with the emergency check after the greeting check.
detectIntentGreetingFirst(message) ==
  LET lowerMessage == toLowerCase(message) IN
  IF RegexTest(intentPatterns.greeting, lowerMessage) THEN "greeting"
  ELSE IF (\E symptom \in emergencySymptoms : includes(lowerMessage, symptom))
            \/ RegexTest(intentPatterns.emergency, lowerMessage)
  THEN "emergency"
  ELSE FirstPattern(<<"book_appointment", "doctor_search", "faq_hours",
                      "symptom_triage", "cancel_appointment">>, lowerMessage)

\* detectIntent with no label for a message that matches nothing.
detectIntentNoFallback(message) ==
  LET lowerMessage == toLowerCase(message) IN
  IF (\E symptom \in emergencySymptoms : includes(lowerMessage, symptom))
       \/ RegexTest(intentPatterns.emergency, lowerMessage)
  THEN "emergency"
  ELSE LET label == FirstPattern(<<"greeting", "book_appointment", "doctor_search",
                      "faq_hours", "symptom_triage", "cancel_appointment">>, lowerMessage)
       IN IF label = "fallback" THEN "error" ELSE label

\* detectIntent with doctor_search tested before book_appointment.
detectIntentSearchFirst(message) ==
  LET lowerMessage == toLowerCase(message) IN
  IF (\E symptom \in emergencySymptoms : includes(lowerMessage, symptom))
       \/ RegexTest(intentPatterns.emergency, lowerMessage)
  THEN "emergency"
  ELSE FirstPattern(<<"greeting", "doctor_search", "book_appointment", "faq_hours",
                      "symptom_triage", "cancel_appointment">>, lowerMessage)

\* detectIntent with the emergency keywords alone tested first, without the
\* search for an emergency phrase.
detectIntentKeywordOnly(message) ==
  LET lowerMessage == toLowerCase(message) IN
  IF RegexTest(intentPatterns.emergency, lowerMessage)
  THEN "emergency"
  ELSE FirstPattern(<<"greeting", "book_appointment", "doctor_search", "faq_hours",
                      "symptom_triage", "cancel_appointment">>, lowerMessage)

\* The names of the pattern objects, in the order detectIntent tests them.
TestOrder ==
  <<"emergency", "greeting", "book_appointment", "doctor_search", "faq_hours",
    "symptom_triage", "cancel_appointment">>

\* The pattern objects are created once, when the module is loaded, and are
\* shared by all invocations of the handler.
VARIABLE lastIndex  \* the lastIndex of each pattern object of intentPatterns

FreshIndex == [n \in DOMAIN intentPatterns |-> 0]

\* intentPatterns.<name>.test(str)
Test(name, str) == RegexFound(intentPatterns[name], str, lastIndex[name])

detectIntent(message) ==
  LET lowerMessage == toLowerCase(message) IN
  IF (\E symptom \in emergencySymptoms : includes(lowerMessage, symptom))
       \/ Test("emergency", lowerMessage)
  THEN "emergency"
  ELSE IF Test("greeting", lowerMessage) THEN "greeting"
  ELSE IF Test("book_appointment", lowerMessage) THEN "book_appointment"
  ELSE IF Test("doctor_search", lowerMessage) THEN "doctor_search"
  ELSE IF Test("faq_hours", lowerMessage) THEN "faq_hours"
  ELSE IF Test("symptom_triage", lowerMessage) THEN "symptom_triage"
  ELSE IF Test("cancel_appointment", lowerMessage) THEN "cancel_appointment"
  ELSE "fallback"

\* The lastIndex of the pattern objects after detectIntent(message): test()
\* was called on the patterns up to the first that matched, and not on
\* emergency when an emergency phrase was found before it.
detectIntentLastIndex(message) ==
  IF ~Stateful THEN lastIndex
  ELSE
    LET lowerMessage == toLowerCase(message)
        label == detectIntent(message)
        phrase == \E symptom \in emergencySymptoms : includes(lowerMessage, symptom)
        tested(i) ==
          IF i = 1 THEN ~phrase
          ELSE /\ label # "emergency"
               /\ \A j \in 2..(i - 1) : label # TestOrder[j]
    IN [n \in DOMAIN intentPatterns |->
          LET i == CHOOSE k \in 1..Len(TestOrder) : TestOrder[k] = n IN
          IF tested(i)
          THEN RegexLastIndex(intentPatterns[n], lowerMessage, lastIndex[n])
          ELSE lastIndex[n]]

(***************************************************************************)
(* Doctor directory (table public.doctors) and the two queries             *)
(***************************************************************************)
\* Rows of the seed INSERT, in insertion order.
SeedDoctors ==
  << [name |-> "Dr. Sarah Johnson", specialty |-> "Cardiology",
      days |-> <<"Monday", "Tuesday", "Wednesday", "Thursday", "Friday">>,
      start_hour |-> 9, end_hour |-> 17],
     [name |-> "Dr. Michael Chen", specialty |-> "Orthopedics",
      days |-> <<"Monday", "Wednesday", "Friday">>,
      start_hour |-> 10, end_hour |-> 18],
     [name |-> "Dr. Emily Rodriguez", specialty |-> "Pediatrics",
      days |-> <<"Tuesday", "Thursday", "Saturday">>,
      start_hour |-> 8, end_hour |-> 16],
     [name |-> "Dr. David Kumar", specialty |-> "Neurology",
      days |-> <<"Monday", "Tuesday", "Thursday", "Friday">>,
      start_hour |-> 9, end_hour |-> 17],
     [name |-> "Dr. Lisa Thompson", specialty |-> "General Medicine",
      days |-> <<"Monday", "Tuesday", "Wednesday", "Thursday", "Friday", "Saturday">>,
      start_hour |-> 8, end_hour |-> 20] >>

\* Largest number of rows of the doctors table the model looks at.
MaxDoctors == 2

\* The contents the doctors table may have when a query reads it.
Directories == {{SeedDoctors[i] : i \in 1..k} : k \in 0..MaxDoctors}

\* Code-point order of the characters that occur in names.
codeChars == " ." \o upperChars \o lowerChars

CharCode(c) == CHOOSE i \in 1..Len(codeChars) : Char(codeChars, i) = c

\* a sorts strictly before b (ORDER BY name).
RECURSIVE StrLess(_, _)
StrLess(a, b) ==
  IF b = "" THEN FALSE
  ELSE IF a = "" THEN TRUE
  ELSE IF Char(a, 1) # Char(b, 1) THEN CharCode(Char(a, 1)) < CharCode(Char(b, 1))
  ELSE StrLess(SubSeq(a, 2, Len(a)), SubSeq(b, 2, Len(b)))

\* All orders in which the rows of a set can be returned.
RowOrders(rows) ==
  {q \in [1..Cardinality(rows) -> rows] : \A i, j \in DOMAIN q : i # j => q[i] # q[j]}

\* .from("doctors").select("*").order("name")
OrderByName(rows) ==
  CHOOSE q \in RowOrders(rows) :
    \A i, j \in DOMAIN q : i < j => ~StrLess(q[j].name, q[i].name)

\* .ilike("specialty", `%${specialty}%`): case-insensitive containment.
Ilike(rows, specialty) ==
  {d \in rows : includes(toLowerCase(d.specialty), toLowerCase(specialty))}

\* The result {data} of a query: data is null when the lookup fails.
NullData == [isNull |-> TRUE, rows |-> <<>>]
Data(q) == [isNull |-> FALSE, rows |-> q]

\* The results the query of generateResponse can deliver for an intent and a
\* specialty filter. The doctor_search query has no ORDER BY, so its rows
\* come in any order.
QueryResults(intent, specialty) ==
  {NullData} \cup
  UNION {IF intent = "book_appointment"
         THEN {Data(OrderByName(dir))}
         ELSE {Data(q) : q \in RowOrders(IF specialty # "" THEN Ilike(dir, specialty) ELSE dir)}
         : dir \in Directories}

(***************************************************************************)
(* Response generation. The reply texts are the literals of the source     *)
(* with their non-ASCII symbols (bullets, arrows, emoji) written in ASCII. *)
(***************************************************************************)
RECURSIVE join(_, _)
join(parts, sep) ==
  IF Len(parts) = 0 THEN ""
  ELSE IF Len(parts) = 1 THEN parts[1]
  ELSE parts[1] \o sep \o join(Tail(parts), sep)

GreetingText ==
  "Hello! I'm your HospitalCare assistant. I can help you with:\n\n" \o
  "* Booking appointments with doctors\n" \o
  "* Finding specialists by specialty\n" \o
  "* Visiting hours and hospital information\n" \o
  "* Basic health questions\n\n" \o
  "How can I assist you today?"

NoDoctorsText ==
  "I can help you book an appointment. However, there are no doctors available at the moment. Please try again later."

BookHeader == "I can help you book an appointment! Here are our available doctors:\n\n"

BookFooter ==
  "Please specify which doctor you'd like to see, or let me know your preferred specialty and I'll help you find the right doctor."

\* The entry numbered idx in place of idx + 1.
BookEntryFromZero(doc, idx) ==
  ToString(idx) \o ". Dr. " \o doc.name \o " - " \o doc.specialty \o "\n" \o
  "   Available: " \o join(doc.days, ", ") \o "\n" \o
  "   Hours: " \o ToString(doc.start_hour) \o ":00 - " \o ToString(doc.end_hour) \o ":00\n\n"

\* One pass of the forEach of the book_appointment case, idx counted from 0.
BookEntry(doc, idx) ==
  ToString(idx + 1) \o ". Dr. " \o doc.name \o " - " \o doc.specialty \o "\n" \o
  "   Available: " \o join(doc.days, ", ") \o "\n" \o
  "   Hours: " \o ToString(doc.start_hour) \o ":00 - " \o ToString(doc.end_hour) \o ":00\n\n"

RECURSIVE BookEntries(_, _)
BookEntries(doctors, idx) ==
  IF idx >= Len(doctors) THEN ""
  ELSE BookEntry(doctors[idx + 1], idx) \o BookEntries(doctors, idx + 1)

NotFoundText ==
  "I couldn't find any doctors matching your criteria. Could you please specify the specialty you're looking for? " \o
  "We have specialists in Cardiology, Orthopedics, Pediatrics, Neurology, and General Medicine."

SearchFooter == "Would you like to book an appointment with any of these doctors?"

SearchEntry(doc) ==
  "* Dr. " \o doc.name \o " - " \o doc.specialty \o "\n" \o
  "  Available: " \o join(doc.days, ", ") \o "\n" \o
  "  Hours: " \o ToString(doc.start_hour) \o ":00 - " \o ToString(doc.end_hour) \o ":00\n\n"

\* The listing that stops after its first doctor.
SearchEntriesFirstOnly(doctors) ==
  IF Len(doctors) = 0 THEN ""
  ELSE SearchEntry(Head(doctors))

\* The forEach of the doctor_search case.
RECURSIVE SearchEntries(_)
SearchEntries(doctors) ==
  IF Len(doctors) = 0 THEN ""
  ELSE SearchEntry(Head(doctors)) \o SearchEntries(Tail(doctors))

HoursText ==
  "**Hospital Visiting Hours**\n\n" \o
  "* General Visiting: 10:00 AM - 8:00 PM\n" \o
  "* ICU Visiting: 4:00 PM - 5:00 PM\n" \o
  "* Emergency: Open 24/7\n\n" \o
  "**Clinic Hours by Department:**\n" \o
  "* Outpatient Clinics: Monday-Saturday, 8:00 AM - 8:00 PM\n" \o
  "* Diagnostic Services: Monday-Saturday, 7:00 AM - 9:00 PM\n" \o
  "* Pharmacy: Open 24/7\n\n" \o
  "Is there anything specific you'd like to know?"

EmergencyAlertText ==
  "**EMERGENCY ALERT**\n\n" \o
  "Based on your symptoms, you need immediate medical attention!\n\n" \o
  "**Call Emergency Services (911) immediately** or go to the nearest Emergency Room.\n\n" \o
  "Emergency Contact: 911\n" \o
  "Hospital Emergency: +1-555-HOSPITAL\n\n" \o
  "Do not wait - seek help now!"

TriageText ==
  "I understand you're experiencing symptoms. While I can provide general information, " \o
  "I'm not qualified to diagnose medical conditions.\n\n" \o
  "**For proper medical advice:**\n" \o
  "* If symptoms are severe or worsening -> Call 911 or visit Emergency\n" \o
  "* For non-urgent concerns -> I can help you book an appointment with a doctor\n" \o
  "* For general health questions -> I'm here to help with information\n\n" \o
  "Would you like me to help you book an appointment with a doctor?"

CancelText ==
  "I can help you cancel your appointment. To proceed, please provide:\n\n" \o
  "* Your appointment reference ID, or\n" \o
  "* The date and doctor name of your appointment\n\n" \o
  "Note: You can also view and manage your appointments through your patient portal."

EmergencyText ==
  "**EMERGENCY RESPONSE**\n\n" \o
  "If this is a life-threatening emergency:\n\n" \o
  "**CALL 911 IMMEDIATELY**\n\n" \o
  "Hospital Emergency Room: Open 24/7\n" \o
  "Emergency Hotline: +1-555-HOSPITAL\n" \o
  "Address: 123 Medical Center Drive\n\n" \o
  "For urgent but non-life-threatening issues, our emergency department is always open. " \o
  "Do not wait if you believe your condition is serious!"

FallbackText ==
  "I'm not sure I understand. I can help you with:\n\n" \o
  "* **Book an appointment** - Schedule a visit with our doctors\n" \o
  "* **Find a doctor** - Search by specialty\n" \o
  "* **Visiting hours** - Get hospital timing information\n" \o
  "* **Health questions** - General medical information\n" \o
  "* **Emergency help** - Urgent medical assistance\n\n" \o
  "What would you like help with?"

\* The keyword chain with "general" tested first.
SearchSpecialtyGeneralFirst(message) ==
  LET lowerMsg == toLowerCase(message) IN
  IF includes(lowerMsg, "general") THEN "General Medicine"
  ELSE IF includes(lowerMsg, "cardio") THEN "Cardiology"
  ELSE IF includes(lowerMsg, "ortho") THEN "Orthopedics"
  ELSE IF includes(lowerMsg, "pediat") THEN "Pediatrics"
  ELSE IF includes(lowerMsg, "neuro") THEN "Neurology"
  ELSE ""

\* The specialty filter of the doctor_search case ("" when no keyword occurs).
SearchSpecialty(message) ==
  LET lowerMsg == toLowerCase(message) IN
  IF includes(lowerMsg, "cardio") THEN "Cardiology"
  ELSE IF includes(lowerMsg, "ortho") THEN "Orthopedics"
  ELSE IF includes(lowerMsg, "pediat") THEN "Pediatrics"
  ELSE IF includes(lowerMsg, "neuro") THEN "Neurology"
  ELSE IF includes(lowerMsg, "general") THEN "General Medicine"
  ELSE ""

\* The intents whose case awaits a query, with greeting added.
DirectoryIntentsWithGreeting == {"book_appointment", "doctor_search", "greeting"}

\* The intents whose case awaits a query, with symptom_triage added.
DirectoryIntentsWithTriage == {"book_appointment", "doctor_search", "symptom_triage"}

\* The intents whose case awaits a query on the doctors table.
DirectoryIntents == {"book_appointment", "doctor_search"}

\* The check made on the message as typed, not on its lower-case form.
emergencyCheckCaseSensitive(message) ==
  \E symptom \in emergencySymptoms : includes(message, symptom)

\* const emergencyCheck of the symptom_triage case.
emergencyCheck(message) ==
  \E symptom \in emergencySymptoms : includes(toLowerCase(message), symptom)

\* The test with the check for a null result left out.
NoDoctorsEmptyOnly(data) == ~data.isNull /\ Len(data.rows) = 0

\* !doctors || doctors.length === 0: the query failed or returned no row.
NoDoctors(data) == data.isNull \/ Len(data.rows) = 0

\* generateResponse, given the {data} its query (if any) resolved to.
generateResponse(intent, message, data) ==
  CASE intent = "greeting" -> GreetingText
    [] intent = "book_appointment" ->
         IF NoDoctors(data) THEN NoDoctorsText
         ELSE BookHeader \o BookEntries(data.rows, 0) \o BookFooter
    [] intent = "doctor_search" ->
         LET specialty == SearchSpecialty(message) IN
         IF NoDoctors(data) THEN NotFoundText
         ELSE (IF specialty # ""
               THEN "Here are our " \o specialty \o " specialists:\n\n"
               ELSE "Here are our available doctors:\n\n")
              \o SearchEntries(data.rows) \o SearchFooter
    [] intent = "faq_hours" -> HoursText
    [] intent = "symptom_triage" ->
         IF emergencyCheck(message)
         THEN EmergencyAlertText
         ELSE TriageText
    [] intent = "cancel_appointment" -> CancelText
    [] intent = "emergency" -> EmergencyText
    [] OTHER -> FallbackText

(***************************************************************************)
(* Requests                                                                *)
(***************************************************************************)
\* Words the messages of the model are made of: one or more for every
\* pattern, an emergency phrase, an upper-case keyword, specialty keywords.
Words ==
  {"hello", "book", "doctor", "appointment", "chest pain", "URGENT", "cancel",
   "open", "fever", "cardiologist", "general"}

\* What stands between two words of a message.
Separators == {" ", "", "\n"}

\* Largest number of words in a message.
MaxWords == 2

WordSeqs(n) == UNION {[1..k -> Words] : k \in 1..n}

\* Messages of section 8 of the specification, and white-space messages.
ExampleMessages ==
  {"I want to book an appointment", "I have severe chest pain and need an appointment",
   "I have chest pain, can I book an appointment", "when do you open", "xyz nonsense",
   "Hi, strokes", "urgently"}

BlankMessages == {" ", " \n\t "}

Messages ==
  {join(ws, sep) : ws \in WordSeqs(MaxWords), sep \in Separators}
    \cup ExampleMessages \cup BlankMessages

\* The value of the field "message" of a parsed body. Strings carry their
\* text in v; other values carry their JSON text.
Undefined == [t |-> "undefined", v |-> ""]
StringValue(s) == [t |-> "string", v |-> s]

MessageValues ==
  {Undefined, [t |-> "null", v |-> "null"], [t |-> "number", v |-> "0"],
   [t |-> "number", v |-> "7"], [t |-> "boolean", v |-> "false"],
   [t |-> "boolean", v |-> "true"], [t |-> "array", v |-> "[]"], StringValue("")}
  \cup {StringValue(m) : m \in Messages}

\* The test message == null in place of !message.
FalsyNullish(val) == val.t \in {"undefined", "null"}

\* The test !message.trim() in place of !message (for strings).
FalsyBlank(val) ==
  \/ val.t \in {"undefined", "null"}
  \/ val.t = "string" /\ trim(val.v) = ""
  \/ val.t = "number" /\ val.v = "0"
  \/ val.t = "boolean" /\ val.v = "false"

\* The test that also refuses every value that is no string.
FalsyOrNoString(val) ==
  \/ val.t # "string"
  \/ val.t = "string" /\ val.v = ""

\* ToBoolean of a message value, negated: the test !message.
Falsy(val) ==
  \/ val.t \in {"undefined", "null"}
  \/ val.t = "string" /\ val.v = ""
  \/ val.t = "number" /\ val.v = "0"
  \/ val.t = "boolean" /\ val.v = "false"

\* A request: its method and what its body parses to. json = "invalid" is a
\* body that is not JSON, "null" the JSON text null, "object" an object.
Requests ==
  {[method |-> "OPTIONS", json |-> "invalid", message |-> Undefined]}
  \cup {[method |-> "POST", json |-> j, message |-> Undefined] : j \in {"invalid", "null"}}
  \cup {[method |-> "POST", json |-> "object", message |-> val] : val \in MessageValues}

\* No request is being handled.
NoRequest == [method |-> "", json |-> "invalid", message |-> Undefined]

(***************************************************************************)
(* Responses                                                               *)
(***************************************************************************)
corsHeaders ==
  {<<"Access-Control-Allow-Origin", "*">>,
   <<"Access-Control-Allow-Headers", "authorization, x-client-info, apikey, content-type">>}

\* The headers of a JSON response without the spread of corsHeaders.
JsonHeadersAlone == {<<"Content-Type", "application/json">>}

\* { ...corsHeaders, 'Content-Type': 'application/json' }
JsonHeaders == corsHeaders \cup {<<"Content-Type", "application/json">>}

\* A Response: status, headers and the JSON object of its body, given by the
\* set of its keys and their values ("" for a key that is not there).
NoResponse ==
  [status |-> 0, headers |-> {}, keys |-> {}, error |-> "", intent |-> "", response |-> ""]

PreflightResponse ==
  [status |-> 200, headers |-> corsHeaders, keys |-> {}, error |-> "", intent |-> "",
   response |-> ""]

RequiredResponse ==
  [status |-> 400, headers |-> JsonHeaders, keys |-> {"error"},
   error |-> "Message is required", intent |-> "", response |-> ""]

\* The success body with its two values exchanged.
SuccessResponseSwapped(intent, response) ==
  [status |-> 200, headers |-> JsonHeaders, keys |-> {"intent", "response"},
   error |-> "", intent |-> response, response |-> intent]

SuccessResponse(intent, response) ==
  [status |-> 200, headers |-> JsonHeaders, keys |-> {"intent", "response"},
   error |-> "", intent |-> intent, response |-> response]

ApologyText == "I'm sorry, I encountered an error processing your request. Please try again."

\* The catch block answering without the intent marker and with status 200.
ErrorResponseUnmarked(errorMessage) ==
  [status |-> 200, headers |-> JsonHeaders, keys |-> {"error", "response"},
   error |-> IF errorMessage # "" THEN errorMessage ELSE "An unexpected error occurred",
   intent |-> "", response |-> ApologyText]

\* The response of the catch block for a thrown error with the given message.
ErrorResponse(errorMessage) ==
  [status |-> 500, headers |-> JsonHeaders, keys |-> {"error", "intent", "response"},
   error |-> IF errorMessage # "" THEN errorMessage ELSE "An unexpected error occurred",
   intent |-> "error", response |-> ApologyText]

(***************************************************************************)
(* The serve handler                                                       *)
(***************************************************************************)
VARIABLES
  pc,      \* where the handler stands: "idle", "parsing", "classified",
           \* "querying" or "responded"
  req,     \* the request being handled
  intent,  \* const intent of the handler ("" before it is assigned)
  data,    \* the {data} the query of generateResponse resolved to
  resp,    \* the Response returned (NoResponse before)
  calls,   \* the calls made while handling req, in order
  peer     \* a second invocation in flight in the same worker, suspended at
           \* an await: its pc, req, intent, data, resp and calls

\* The pages of the client, each with the state of its component, the calls
\* it has in flight and the rows of the tables it reads and writes.
VARIABLES
  chat,    \* the Chat page (pages/Chat.tsx)
  admin,   \* the Admin page (pages/Admin.tsx)
  auth     \* the Auth page (pages/Auth.tsx) and the session of the auth client

pageVars == <<chat, admin, auth>>

\* A page that is not mounted.
Unmounted == [path |-> ""]

vars == <<pc, req, intent, data, resp, calls, lastIndex, peer, pageVars>>

\* An invocation that has not started.
NoInvocation ==
  [pc |-> "idle", req |-> NoRequest, intent |-> "", data |-> NullData,
   resp |-> NoResponse, calls |-> <<>>]

Call(op, a, b) == [op |-> op, a |-> a, b |-> b]

Init ==
  /\ pc = "idle"
  /\ req = NoRequest
  /\ intent = ""
  /\ data = NullData
  /\ resp = NoResponse
  /\ calls = <<>>
  /\ lastIndex = FreshIndex
  /\ peer = NoInvocation
  /\ chat = Unmounted
  /\ admin = Unmounted
  /\ auth = Unmounted

\* serve(async (req) => ...) up to its first await. A preflight request is
\* answered at once; any other request awaits req.json().
Serve(r) ==
  /\ pc = "idle"
  /\ req' = r
  /\ UNCHANGED <<intent, data, lastIndex, peer, pageVars>>
  /\ IF r.method = "OPTIONS"
     THEN /\ pc' = "responded"
          /\ resp' = PreflightResponse
          /\ calls' = <<>>
     ELSE /\ pc' = "parsing"
          /\ resp' = NoResponse
          /\ calls' = <<Call("req.json", "", "")>>

\* The catch block.
Caught(errorMessage) ==
  /\ pc' = "responded"
  /\ resp' = ErrorResponse(errorMessage)

\* From the resolution of req.json() through const intent = detectIntent(message).
AfterJson ==
  /\ pc = "parsing"
  /\ UNCHANGED <<req, data, peer, pageVars>>
  /\ \/ /\ req.json = "invalid"
        /\ Caught("Unexpected token")
        /\ UNCHANGED <<intent, calls, lastIndex>>
     \/ /\ req.json = "null"
        /\ Caught("Cannot destructure property 'message' of null")
        /\ UNCHANGED <<intent, calls, lastIndex>>
     \/ /\ req.json = "object"
        /\ Falsy(req.message)
        /\ pc' = "responded"
        /\ resp' = RequiredResponse
        /\ UNCHANGED <<intent, calls, lastIndex>>
     \/ \* createClient throws when SUPABASE_URL is not set
        /\ req.json = "object"
        /\ ~Falsy(req.message)
        /\ Caught("supabaseUrl is required.")
        /\ calls' = Append(calls, Call("createClient", "", ""))
        /\ UNCHANGED <<intent, lastIndex>>
     \/ \* detectIntent on a value that is no string: toLowerCase is undefined
        /\ req.json = "object"
        /\ ~Falsy(req.message)
        /\ req.message.t # "string"
        /\ Caught("message.toLowerCase is not a function")
        /\ calls' = calls \o <<Call("createClient", "", ""),
                               Call("detectIntent", req.message.v, "")>>
        /\ UNCHANGED <<intent, lastIndex>>
     \/ /\ req.json = "object"
        /\ ~Falsy(req.message)
        /\ req.message.t = "string"
        /\ intent' = detectIntent(req.message.v)
        /\ lastIndex' = detectIntentLastIndex(req.message.v)
        /\ pc' = "classified"
        /\ calls' = calls \o <<Call("createClient", "", ""),
                               Call("detectIntent", req.message.v, "")>>
        /\ resp' = resp

\* generateResponse(intent, message, supabaseClient) up to its await, or to
\* the return of the handler when the case of the intent awaits nothing.
Generate ==
  /\ pc = "classified"
  /\ UNCHANGED <<req, intent, data, lastIndex, peer, pageVars>>
  /\ LET message == req.message.v
         made == Append(calls, Call("generateResponse", intent, message))
     IN IF intent \in DirectoryIntents
        THEN /\ pc' = "querying"
             /\ resp' = resp
             /\ calls' = Append(made,
                  IF intent = "book_appointment"
                  THEN Call("query", "", "name")
                  ELSE Call("query", SearchSpecialty(message), ""))
        ELSE /\ pc' = "responded"
             /\ resp' = SuccessResponse(intent, generateResponse(intent, message, data))
             /\ calls' = made

\* From the resolution of the query on doctors to the return of the handler.
AfterQuery ==
  /\ pc = "querying"
  /\ \E result \in QueryResults(intent, calls[Len(calls)].a) :
       /\ data' = result
       /\ resp' = SuccessResponse(intent, generateResponse(intent, req.message.v, result))
  /\ pc' = "responded"
  /\ UNCHANGED <<req, intent, calls, lastIndex, peer, pageVars>>

\* The Response has been handed to the caller: nothing of the invocation
\* is kept.
Returned ==
  /\ pc = "responded"
  /\ pc' = "idle"
  /\ req' = NoRequest
  /\ intent' = ""
  /\ data' = NullData
  /\ resp' = NoResponse
  /\ calls' = <<>>
  /\ UNCHANGED <<lastIndex, peer, pageVars>>

Next ==
  \/ \E r \in Requests : Serve(r)
  \/ AfterJson
  \/ Generate
  \/ AfterQuery
  \/ Returned

Spec == Init /\ [][Next]_vars

(***************************************************************************)
(* Two invocations in flight                                               *)
(***************************************************************************)
\* The worker runs one handler at a time and moves to another invocation
\* only where the running one awaits (req.json(), the query) or has ended.
Suspended == {"idle", "parsing", "querying", "responded"}

\* The invocation at hand.
Invocation ==
  [pc |-> pc, req |-> req, intent |-> intent, data |-> data, resp |-> resp,
   calls |-> calls]

\* The event loop leaves the invocation at hand at its await and resumes the
\* other one.
Switch ==
  /\ pc \in Suspended
  /\ peer # Invocation
  /\ peer' = Invocation
  /\ pc' = peer.pc
  /\ req' = peer.req
  /\ intent' = peer.intent
  /\ data' = peer.data
  /\ resp' = peer.resp
  /\ calls' = peer.calls
  /\ UNCHANGED <<lastIndex, pageVars>>

\* The messages the two invocations are run on.
PairMessages == {"hello", "doctor", "fever"}

PairRequests ==
  {r \in Requests :
     (r.json = "object" /\ r.message.t = "string" /\ r.message.v # "")
        => r.message.v \in PairMessages}

NextPair ==
  \/ \E r \in PairRequests : Serve(r)
  \/ AfterJson
  \/ Generate
  \/ AfterQuery
  \/ Returned
  \/ Switch

SpecPair == Init /\ [][NextPair]_vars

(***************************************************************************)
(* generateResponse called on its own                                      *)
(***************************************************************************)
\* The labels generateResponse is called with: the eight of detectIntent and
\* two that detectIntent never returns.
GenLabels ==
  {"greeting", "book_appointment", "doctor_search", "faq_hours", "symptom_triage",
   "cancel_appointment", "emergency", "fallback", "error", ""}

\* The messages generateResponse is called with.
GenMessages ==
  {"", "hello", "fever", "chest pain", "I have CHEST PAIN", "Heart Attack",
   "doctor", "find a cardiologist", "General or NEURO doctor", "book appointment",
   "xyz nonsense"}

\* generateResponse is entered with any label and any message.
InitGenerate ==
  /\ pc = "classified"
  /\ intent \in GenLabels
  /\ req \in {[method |-> "POST", json |-> "object", message |-> StringValue(m)] :
                m \in GenMessages}
  /\ data = NullData
  /\ resp = NoResponse
  /\ calls = <<>>
  /\ lastIndex = FreshIndex
  /\ peer = NoInvocation
  /\ chat = Unmounted
  /\ admin = Unmounted
  /\ auth = Unmounted

NextGenerate ==
  \/ Generate
  \/ AfterQuery

SpecGenerate == InitGenerate /\ [][NextGenerate]_vars

(***************************************************************************)
(* The Chat page (pages/Chat.tsx)                                          *)
(***************************************************************************)
handlerVars == <<pc, req, intent, data, resp, calls, lastIndex, peer>>

\* The edge function is not running.
HandlerIdle ==
  /\ pc = "idle"
  /\ req = NoRequest
  /\ intent = ""
  /\ data = NullData
  /\ resp = NoResponse
  /\ calls = <<>>
  /\ lastIndex = FreshIndex
  /\ peer = NoInvocation

\* session === null
NoSession == 0

\* The Session objects handed to the page. getSession and the
\* onAuthStateChange callback each hand over the stored session, as the same
\* object or as two objects.
SessionObjects == {1, 2}

\* The content of welcomeMsg.
WelcomeText == "Hello! I'm your HospitalCare assistant. How can I help you today?"

\* What the user types into the input.
InputTexts == {"", " \n", " fever "}

\* Largest number of calls of handleSend the model looks at.
MaxSends == 1

\* No reply of the chat-intent function.
NoReply == [intent |-> "", response |-> ""]

\* handleSend is not running.
IdleSend == [pc |-> "idle", userMessage |-> "", conversationId |-> 0, reply |-> NoReply]

\* A row of the table messages, and tempUserMsg, which has no row (id 0).
MessageRow(id, convId, role, content, label) ==
  [id |-> id, conversation_id |-> convId, role |-> role, content |-> content,
   intent |-> label]

\* The {intent, response} bodies the chat-intent function answers a message
\* with, one for each result its query can have.
InvokeReplies(m) ==
  LET label == detectIntent(m) IN
  {[intent |-> label, response |-> generateResponse(label, m, d)] :
     d \in (IF label \in DirectoryIntents
            THEN QueryResults(label, SearchSpecialty(m))
            ELSE {NullData})}

\* The page is mounted: the user is signed in (user = 1) or not (user = 0)
\* and has one conversation with its welcome message or none.
InitChat ==
  /\ HandlerIdle
  /\ admin = Unmounted
  /\ auth = Unmounted
  /\ \E user \in {0, 1} : \E convs \in {<<>>, <<1>>} :
       chat = [path |-> "/",
               user |-> user,
               hadConversation |-> convs # <<>>,
               pending |-> {"onAuthStateChange", "getSession"},
               session |-> NoSession,
               messages |-> <<>>,
               input |-> "",
               loading |-> FALSE,
               conversationId |-> 0,
               toasts |-> 0,
               loads |-> <<>>,
               send |-> IdleSend,
               sendCalls |-> 0,
               invoked |-> <<>>,
               dbConversations |-> convs,
               dbMessages |-> IF convs = <<>> THEN <<>>
                              ELSE <<MessageRow(1, 1, "assistant", WelcomeText, "greeting")>>]

\* The sessions the auth client hands over.
DeliveredSessions == IF chat.user = 0 THEN {NoSession} ELSE SessionObjects

\* setSession(session) with navigate("/auth") when there is none, and the
\* effect on [session] of the render that follows: with a session that is
\* not the one of the render before, loadOrCreateConversation is started.
Deliver(source, s) ==
  /\ source \in chat.pending
  /\ chat' = [chat EXCEPT
                !.pending = @ \ {source},
                !.session = s,
                !.path = IF s = NoSession THEN "/auth" ELSE @,
                !.loads = IF s # NoSession /\ s # chat.session
                          THEN Append(@, [pc |-> "selecting", convId |-> 0])
                          ELSE @]
  /\ UNCHANGED <<handlerVars, admin, auth>>

\* The callback of onAuthStateChange.
AuthStateChange == \E s \in DeliveredSessions : Deliver("onAuthStateChange", s)

\* The then() of getSession().
GetSessionResolved == \E s \in DeliveredSessions : Deliver("getSession", s)

\* A call of loadOrCreateConversation at the given await.
LoadAt(i, at) == i \in DOMAIN chat.loads /\ chat.loads[i].pc = at

\* loadOrCreateConversation from the resolution of its select on
\* conversations: with a row, setConversationId and the call of
\* loadMessages; without one, or with no data, the insert is sent.
ConversationsSelected(i) ==
  /\ LoadAt(i, "selecting")
  /\ \E ok \in BOOLEAN :
       LET conversations == IF ok THEN chat.dbConversations ELSE <<>> IN
       IF Len(conversations) > 0
       THEN LET id == conversations[Len(conversations)] IN
            chat' = [chat EXCEPT
                       !.conversationId = id,
                       !.loads[i] = [pc |-> "loadingMessages", convId |-> id]]
       ELSE chat' = [chat EXCEPT !.loads[i] = [pc |-> "inserting", convId |-> 0]]
  /\ UNCHANGED <<handlerVars, admin, auth>>

\* From the resolution of the insert into conversations: with the new row,
\* setConversationId and the call of addWelcomeMessage.
ConversationInserted(i) ==
  /\ LoadAt(i, "inserting")
  /\ \E ok \in BOOLEAN :
       IF ok
       THEN LET id == Len(chat.dbConversations) + 1 IN
            chat' = [chat EXCEPT
                       !.dbConversations = Append(@, id),
                       !.conversationId = id,
                       !.loads[i] = [pc |-> "welcoming", convId |-> id]]
       ELSE chat' = [chat EXCEPT !.loads[i] = [pc |-> "done", convId |-> 0]]
  /\ UNCHANGED <<handlerVars, admin, auth>>

\* addWelcomeMessage from the resolution of its insert into messages.
WelcomeInserted(i) ==
  /\ LoadAt(i, "welcoming")
  /\ \E ok \in BOOLEAN :
       IF ok
       THEN LET row == MessageRow(Len(chat.dbMessages) + 1, chat.loads[i].convId,
                                  "assistant", WelcomeText, "greeting") IN
            chat' = [chat EXCEPT
                       !.dbMessages = Append(@, row),
                       !.messages = <<row>>,
                       !.loads[i].pc = "done"]
       ELSE chat' = [chat EXCEPT !.loads[i].pc = "done"]
  /\ UNCHANGED <<handlerVars, admin, auth>>

\* The rows of a conversation, in the order of their creation.
RowsOf(convId) ==
  LET Of(row) == row.conversation_id = convId IN SelectSeq(chat.dbMessages, Of)

\* loadMessages from the resolution of its select on messages.
MessagesLoaded(i) ==
  /\ LoadAt(i, "loadingMessages")
  /\ \E ok \in BOOLEAN :
       chat' = [chat EXCEPT
                  !.messages = IF ok THEN RowsOf(chat.loads[i].convId) ELSE @,
                  !.loads[i].pc = "done"]
  /\ UNCHANGED <<handlerVars, admin, auth>>

\* setInput: the user types into the input, which is disabled while loading.
TypeInput(text) ==
  /\ chat.path = "/"
  /\ ~chat.loading
  /\ text # chat.input
  /\ chat' = [chat EXCEPT !.input = text]
  /\ UNCHANGED <<handlerVars, admin, auth>>

\* The guard of handleSend that tests the input as typed.
SendGuardUntrimmed ==
  chat.input # "" /\ chat.conversationId # 0 /\ chat.session # NoSession

\* The guard of handleSend, negated: none of !input.trim(), !conversationId
\* and !session?.user holds.
SendGuard ==
  trim(chat.input) # "" /\ chat.conversationId # 0 /\ chat.session # NoSession

\* handleSend up to its first await: the guard, then setInput(""),
\* setLoading(true), tempUserMsg appended and the insert of the user message
\* sent.
HandleSend ==
  /\ chat.path = "/"
  /\ ~chat.loading
  /\ chat.send.pc = "idle"
  /\ chat.sendCalls < MaxSends
  /\ IF ~SendGuard
     THEN chat' = [chat EXCEPT !.sendCalls = @ + 1]
     ELSE LET userMessage == trim(chat.input) IN
          chat' = [chat EXCEPT
                     !.sendCalls = @ + 1,
                     !.input = "",
                     !.loading = TRUE,
                     !.messages = Append(@, MessageRow(0, 0, "user", userMessage, "")),
                     !.send = [pc |-> "savingUser", userMessage |-> userMessage,
                               conversationId |-> chat.conversationId,
                               reply |-> NoReply]]
  /\ UNCHANGED <<handlerVars, admin, auth>>

\* From the resolution of the insert of the user message, whose outcome is
\* not looked at, to the call of the chat-intent function.
UserMessageInserted ==
  /\ chat.send.pc = "savingUser"
  /\ \E ok \in BOOLEAN :
       chat' = [chat EXCEPT
                  !.dbMessages =
                     IF ok
                     THEN Append(@, MessageRow(Len(@) + 1, chat.send.conversationId,
                                               "user", chat.send.userMessage, ""))
                     ELSE @,
                  !.invoked = Append(@, chat.send.userMessage),
                  !.send.pc = "invoking"]
  /\ UNCHANGED <<handlerVars, admin, auth>>

\* The catch block without the finally block after it.
CatchWithoutFinally ==
  [chat EXCEPT !.toasts = @ + 1, !.send = IdleSend]

\* The catch block (the error toast) and the finally block (setLoading(false)).
CatchAndFinally ==
  [chat EXCEPT !.toasts = @ + 1, !.loading = FALSE, !.send = IdleSend]

\* From the resolution of functions.invoke: with an error the catch block,
\* with data the insert of the assistant message is sent.
InvokeResolved ==
  /\ chat.send.pc = "invoking"
  /\ \/ chat' = CatchAndFinally
     \/ \E reply \in InvokeReplies(chat.send.userMessage) :
          chat' = [chat EXCEPT !.send.pc = "savingAssistant", !.send.reply = reply]
  /\ UNCHANGED <<handlerVars, admin, auth>>

\* const assistantMsg, as the row with the given id.
assistantMsg(id) ==
  MessageRow(id, chat.send.conversationId, "assistant", chat.send.reply.response,
             chat.send.reply.intent)

\* From the resolution of the insert of the assistant message: savedMsg, when
\* there is one, is appended to the list; then the finally block.
AssistantMessageInserted ==
  /\ chat.send.pc = "savingAssistant"
  /\ \E ok \in BOOLEAN :
       LET savedMsg == assistantMsg(Len(chat.dbMessages) + 1) IN
       chat' = [chat EXCEPT
                  !.dbMessages = IF ok THEN Append(@, savedMsg) ELSE @,
                  !.messages = IF ok THEN Append(@, savedMsg) ELSE @,
                  !.loading = FALSE,
                  !.send = IdleSend]
  /\ UNCHANGED <<handlerVars, admin, auth>>

NextChat ==
  \/ AuthStateChange
  \/ GetSessionResolved
  \/ \E i \in 1..Cardinality(SessionObjects) : ConversationsSelected(i)
  \/ \E i \in 1..Cardinality(SessionObjects) : ConversationInserted(i)
  \/ \E i \in 1..Cardinality(SessionObjects) : WelcomeInserted(i)
  \/ \E i \in 1..Cardinality(SessionObjects) : MessagesLoaded(i)
  \/ \E text \in InputTexts : TypeInput(text)
  \/ HandleSend
  \/ UserMessageInserted
  \/ InvokeResolved
  \/ AssistantMessageInserted

SpecChat == InitChat /\ [][NextChat]_vars

\* Every request the page awaits is answered or fails in the end, so every
\* await of handleSend resolves.
SpecChatFair ==
  /\ InitChat
  /\ [][NextChat]_vars
  /\ WF_vars(UserMessageInserted)
  /\ WF_vars(InvokeResolved)
  /\ WF_vars(AssistantMessageInserted)

(***************************************************************************)
(* The Auth page (pages/Auth.tsx, handleAdminSignIn) and the Admin page    *)
(* (pages/Admin.tsx)                                                       *)
(***************************************************************************)
\* The accounts: the first is the one of ADMIN_EMAIL, the second a patient.
Users == {1, 2}
AdminAccount == 1

\* {data} of .single() on user_roles: the row, or null without one row.
NullRow == "null"
AdminRow == "admin"

\* The rows the tables appointments and conversations can hold.
TableRows == {<<>>, <<1>>, <<1, 2>>}

\* The lookup in user_roles has not returned.
NoLookup == "none"

\* handleAdminSignIn is not running; the fields after pc record its last run.
IdleSignIn ==
  [pc |-> "idle", signedIn |-> FALSE, roleData |-> NoLookup,
   signOutCalled |-> FALSE, signedOut |-> FALSE, navigated |-> FALSE]

\* checkAdminAccess and loadData are not running.
IdleCheck == [pc |-> "idle", userId |-> NoSession, data |-> NoLookup]
IdleLoad == [pc |-> "idle", appts |-> NullData]

\* The state of the Admin page when it mounts, over the tables of the
\* database.
MountedAdmin(appts, convs) ==
  [mounted |-> TRUE,
   pending |-> {"onAuthStateChange", "getSession"},
   session |-> NoSession,
   appointments |-> <<>>,
   conversations |-> <<>>,
   loading |-> TRUE,
   toast |-> "",
   check |-> IdleCheck,
   load |-> IdleLoad,
   dbAppointments |-> appts,
   dbConversations |-> convs]

\* The browser opens /auth or /admin, with a stored session or none; any of
\* the accounts may have an admin row in user_roles.
InitAdmin ==
  /\ HandlerIdle
  /\ chat = Unmounted
  /\ \E path \in {"/auth", "/admin"} : \E stored \in {NoSession} \cup Users :
     \E roles \in SUBSET Users : \E appts \in TableRows : \E convs \in TableRows :
       /\ auth = [path |-> path,
                  stored |-> stored,
                  roles |-> roles,
                  loading |-> FALSE,
                  toast |-> "",
                  signIn |-> IdleSignIn]
       /\ admin = [MountedAdmin(appts, convs) EXCEPT
                     !.mounted = (path = "/admin"),
                     !.pending = IF path = "/admin" THEN @ ELSE {}]

\* What .single() can deliver for the admin row of a user: the row when the
\* user has one, null when there is none or the lookup fails.
RoleLookups(userId) ==
  {NullRow} \cup (IF userId \in auth.roles THEN {AdminRow} ELSE {})

\* navigate("/auth") of the Admin page: the page unmounts and its
\* subscription ends; the Auth page mounts.
LeaveAdmin(a) ==
  [a EXCEPT !.mounted = FALSE, !.pending = @ \ {"onAuthStateChange"}]

AuthMounted ==
  [auth EXCEPT !.path = "/auth",
               !.loading = IF auth.path = "/auth" THEN @ ELSE FALSE]

\* The callback of onAuthStateChange of the Admin page.
AdminAuthStateChange ==
  /\ admin.mounted
  /\ "onAuthStateChange" \in admin.pending
  /\ LET a == [admin EXCEPT !.pending = @ \ {"onAuthStateChange"},
                            !.session = auth.stored]
     IN IF auth.stored = NoSession
        THEN /\ admin' = LeaveAdmin(a)
             /\ auth' = AuthMounted
        ELSE /\ admin' = a
             /\ UNCHANGED auth
  /\ UNCHANGED <<handlerVars, chat>>

\* The then() of getSession() of the Admin page.
AdminGetSessionResolved ==
  /\ admin # Unmounted
  /\ "getSession" \in admin.pending
  /\ LET a == [admin EXCEPT !.pending = @ \ {"getSession"},
                            !.session = IF admin.mounted THEN auth.stored ELSE @]
     IN IF auth.stored = NoSession
        THEN /\ admin' = LeaveAdmin(a)
             /\ auth' = AuthMounted
        ELSE /\ admin' = [a EXCEPT !.check = [pc |-> "selecting",
                                              userId |-> auth.stored,
                                              data |-> NoLookup]]
             /\ UNCHANGED auth
  /\ UNCHANGED <<handlerVars, chat>>

\* if (!data) of checkAdminAccess.
AccessDeniedNever(roleRow) == FALSE

AccessDenied(roleRow) == roleRow = NullRow

\* checkAdminAccess after its await: the lookup throws, or delivers data.
AdminRoleSelected ==
  /\ admin # Unmounted
  /\ admin.check.pc = "selecting"
  /\ \/ /\ admin' = LeaveAdmin([admin EXCEPT !.check.pc = "thrown"])
        /\ auth' = AuthMounted
     \/ \E roleRow \in RoleLookups(admin.check.userId) :
          IF AccessDenied(roleRow)
          THEN /\ admin' = LeaveAdmin([admin EXCEPT !.check.pc = "denied",
                                                    !.check.data = roleRow,
                                                    !.toast = "Access Denied"])
               /\ auth' = AuthMounted
          ELSE /\ admin' = [admin EXCEPT !.check.pc = "granted",
                                         !.check.data = roleRow,
                                         !.load = [pc |-> "appointments", appts |-> NullData],
                                         !.loading = TRUE]
               /\ UNCHANGED auth
  /\ UNCHANGED <<handlerVars, chat>>

\* catch and finally of loadData.
LoadFailed(a) ==
  [a EXCEPT !.load.pc = "failed", !.toast = "Error", !.loading = FALSE]

\* loadData after its first await.
AppointmentsSelected ==
  /\ admin # Unmounted
  /\ admin.load.pc = "appointments"
  /\ \/ admin' = LoadFailed(admin)
     \/ \E appts \in {NullData, Data(admin.dbAppointments)} :
          admin' = [admin EXCEPT !.load = [pc |-> "conversations", appts |-> appts]]
  /\ UNCHANGED <<handlerVars, chat, auth>>

\* loadData after its second await.
AdminConversationsSelected ==
  /\ admin # Unmounted
  /\ admin.load.pc = "conversations"
  /\ \/ admin' = LoadFailed(admin)
     \/ \E convs \in {NullData, Data(admin.dbConversations)} :
          admin' = [admin EXCEPT
                      !.appointments = IF admin.load.appts.isNull THEN @
                                       ELSE admin.load.appts.rows,
                      !.conversations = IF convs.isNull THEN @ ELSE convs.rows,
                      !.load.pc = "done",
                      !.loading = FALSE]
  /\ UNCHANGED <<handlerVars, chat, auth>>

\* The admin form is submitted; its button is disabled while loading.
HandleAdminSignIn ==
  /\ auth # Unmounted
  /\ auth.path = "/auth"
  /\ ~auth.loading
  /\ auth.signIn.pc = "idle"
  /\ auth' = [auth EXCEPT !.loading = TRUE,
                          !.signIn = [IdleSignIn EXCEPT !.pc = "signingIn"]]
  /\ UNCHANGED <<handlerVars, chat, admin>>

\* catch and finally of handleAdminSignIn.
SignInThrown(a) ==
  [a EXCEPT !.signIn.pc = "idle", !.toast = "Error", !.loading = FALSE]

\* handleAdminSignIn after signInWithPassword: it throws, returns an error,
\* or signs the account of ADMIN_EMAIL in.
SignInResolved ==
  /\ auth # Unmounted
  /\ auth.signIn.pc = "signingIn"
  /\ \/ auth' = SignInThrown(auth)
     \/ auth' = [auth EXCEPT !.signIn.pc = "idle",
                             !.toast = "Admin Login Failed",
                             !.loading = FALSE]
     \/ auth' = [auth EXCEPT !.stored = AdminAccount,
                             !.signIn.pc = "checkingRole",
                             !.signIn.signedIn = TRUE]
  /\ UNCHANGED <<handlerVars, chat, admin>>

\* if (roleData) of handleAdminSignIn.
RoleGrantedAlways(roleData) == TRUE

RoleGranted(roleData) == roleData # NullRow

\* handleAdminSignIn after the lookup in user_roles.
RoleLookupResolved ==
  /\ auth # Unmounted
  /\ auth.signIn.pc = "checkingRole"
  /\ \/ /\ auth' = SignInThrown(auth)
        /\ UNCHANGED admin
     \/ \E roleData \in RoleLookups(AdminAccount) :
          IF RoleGranted(roleData)
          THEN /\ auth' = [auth EXCEPT !.signIn.pc = "idle",
                                       !.signIn.roleData = roleData,
                                       !.signIn.navigated = TRUE,
                                       !.toast = "Admin Access Granted",
                                       !.path = "/admin",
                                       !.loading = FALSE]
               /\ admin' = MountedAdmin(admin.dbAppointments, admin.dbConversations)
          ELSE /\ auth' = [auth EXCEPT !.signIn.pc = "signingOut",
                                       !.signIn.roleData = roleData,
                                       !.signIn.signOutCalled = TRUE]
               /\ UNCHANGED admin
  /\ UNCHANGED <<handlerVars, chat>>

\* handleAdminSignIn after signOut(): it throws, or returns with the session
\* removed, or returns an error that the handler does not look at.
SignOutResolved ==
  /\ auth # Unmounted
  /\ auth.signIn.pc = "signingOut"
  /\ \/ auth' = SignInThrown(auth)
     \/ \E removed \in BOOLEAN :
          auth' = [auth EXCEPT !.stored = IF removed THEN NoSession ELSE @,
                               !.signIn.pc = "idle",
                               !.signIn.signedOut = removed,
                               !.toast = "Access Denied",
                               !.loading = FALSE]
  /\ UNCHANGED <<handlerVars, chat, admin>>

NextAdmin ==
  \/ AdminAuthStateChange
  \/ AdminGetSessionResolved
  \/ AdminRoleSelected
  \/ AppointmentsSelected
  \/ AdminConversationsSelected
  \/ HandleAdminSignIn
  \/ SignInResolved
  \/ RoleLookupResolved
  \/ SignOutResolved

SpecAdmin == InitAdmin /\ [][NextAdmin]_vars

\* Every request handleAdminSignIn awaits is answered or fails in the end.
SpecAdminFair ==
  /\ InitAdmin
  /\ [][NextAdmin]_vars
  /\ WF_vars(SignInResolved)
  /\ WF_vars(RoleLookupResolved)
  /\ WF_vars(SignOutResolved)

(***************************************************************************)
(* Properties of detectIntent                                              *)
(***************************************************************************)
\* The eight Intent labels.
Intents ==
  {"greeting", "book_appointment", "doctor_search", "faq_hours", "symptom_triage",
   "cancel_appointment", "emergency", "fallback"}

\* The lower-case text t occurs in m when letter case is ignored.
ContainsIgnoreCase(m, t) ==
  \E i \in 1..(Len(m) - Len(t) + 1) :
    /\ LowerChar(Char(m, i)) = Char(t, 1)
    /\ toLowerCase(SubSeq(m, i, i + Len(t) - 1)) = t

\* m holds an emergency phrase or an emergency keyword.
EmergencyTerm(m) ==
  \/ \E phrase \in emergencySymptoms : ContainsIgnoreCase(m, phrase)
  \/ RegexTest(intentPatterns.emergency, m)

\* The handler has just classified the (string) message of its request.
Classified == pc = "classified"
Message == req.message.v

\* C1: a message that holds an emergency phrase (as a substring, letter case
\* ignored) or matches the emergency keyword pattern is classified
\* "emergency", whatever else it holds.
C1_EmergencyPriority ==
  Classified => (EmergencyTerm(Message) => intent = "emergency")

\* A message with an emergency phrase that also matches the booking pattern
\* has been classified "emergency".
C1_Witness ==
  /\ Classified
  /\ EmergencyTerm(Message)
  /\ RegexTest(intentPatterns.book_appointment, Message)
  /\ intent = "emergency"

\* C2: for a non-empty text message detectIntent yields one label of the
\* closed set of eight, never "error" or anything else.
C2_LabelInClosedSet ==
  Classified => (Message # "" /\ intent \in Intents /\ intent # "error")

\* A message that matches nothing has been labelled "fallback".
C2_Witness == Classified /\ intent = "fallback" /\ Message = "xyz nonsense"

\* The patterns in their order of priority.
PatternOrder ==
  <<"greeting", "book_appointment", "doctor_search", "faq_hours", "symptom_triage",
    "cancel_appointment">>

\* The places in PatternOrder whose pattern matches m.
Matching(m) == {i \in 1..Len(PatternOrder) : RegexTest(intentPatterns[PatternOrder[i]], m)}

\* C3: without an emergency term the label is that of the first pattern in
\* PatternOrder that matches, and "fallback" exactly when none matches.
C3_FirstMatchWins ==
  (Classified /\ ~EmergencyTerm(Message)) =>
     LET hits == Matching(Message) IN
     /\ (intent = "fallback") <=> (hits = {})
     /\ \A i \in hits : (\A j \in hits : i <= j) => intent = PatternOrder[i]
     /\ hits = {1} => intent = "greeting"

\* A message that matches the booking pattern and the later doctor_search
\* pattern has been labelled book_appointment.
C3_Witness ==
  /\ Classified
  /\ ~EmergencyTerm(Message)
  /\ {2, 3} \subseteq Matching(Message)
  /\ intent = "book_appointment"

\* The action words and the target words of a booking request.
ActionWords == {"book", "schedule", "appointment", "visit", "reserve", "slot", "make"}
TargetWords == {"appointment", "doctor", "visit"}

\* The whole-word occurrences <<position, word>> of the given words in m.
WordOccurrences(m, words) ==
  {o \in (1..Len(m)) \X words : WordMatchAt(toLowerCase(m), o[2], o[1])}

\* The only action or target word of m is one occurrence of "appointment".
SingleAppointment(m) ==
  LET occ == WordOccurrences(m, ActionWords \cup TargetWords)
  IN Cardinality(occ) = 1 /\ \A o \in occ : o[2] = "appointment"

\* The label of the first pattern after book_appointment that matches m.
LaterLabel(m) ==
  LET hits == Matching(m) \ {1, 2}
  IN IF hits = {} THEN "fallback" ELSE PatternOrder[CHOOSE i \in hits : \A j \in hits : i <= j]

\* C4 as stated: book_appointment only with an action and a target word, and
\* a message whose only such word is a single "appointment" (no emergency
\* term, no greeting) is labelled doctor_search or fallback.
C4_AsStated ==
  Classified =>
    /\ intent = "book_appointment" =>
         /\ WordOccurrences(Message, ActionWords) # {}
         /\ WordOccurrences(Message, TargetWords) # {}
    /\ (SingleAppointment(Message) /\ intent \notin {"emergency", "greeting"}) =>
         intent \in {"doctor_search", "fallback"}

\* C4 (amended): book_appointment only with an action word and a target
\* word; a message whose only such word is a single
\* "appointment" is never book_appointment and, without emergency term or
\* greeting, gets the label of the first later pattern that matches
\* (doctor_search, faq_hours, symptom_triage, cancel_appointment), or fallback.
C4_BookNeedsTwoWords ==
  Classified =>
    /\ intent = "book_appointment" =>
         /\ WordOccurrences(Message, ActionWords) # {}
         /\ WordOccurrences(Message, TargetWords) # {}
    /\ SingleAppointment(Message) =>
         /\ intent # "book_appointment"
         /\ intent \notin {"emergency", "greeting"} => intent = LaterLabel(Message)

\* A message whose only booking word is a single "appointment" has fallen
\* through to cancel_appointment.
C4_Witness ==
  /\ Classified
  /\ SingleAppointment(Message)
  /\ intent = "cancel_appointment"

\* The last position of an occurrence <<position, word>>.
EndOf(o) == o[1] + Len(o[2]) - 1

\* Some action word of m ends before a target word of m starts.
ActionBeforeTarget(m) ==
  \E a \in WordOccurrences(m, ActionWords) : \E t \in WordOccurrences(m, TargetWords) :
    EndOf(a) < t[1]

\* m holds action words and target words, and no action word of m starts
\* before a target word of m.
TargetFirst(m) ==
  /\ WordOccurrences(m, ActionWords) # {}
  /\ WordOccurrences(m, TargetWords) # {}
  /\ \A a \in WordOccurrences(m, ActionWords) : \A t \in WordOccurrences(m, TargetWords) :
       t[1] <= a[1]

\* C21: a message is labelled book_appointment only if an occurrence of an
\* action word stands earlier in it than another occurrence, of a target
\* word; a message with both kinds of word whose target words all stand
\* before its action words is not labelled book_appointment.
C21_BookOrder ==
  Classified =>
    /\ intent = "book_appointment" => ActionBeforeTarget(Message)
    /\ TargetFirst(Message) => intent # "book_appointment"

\* The message "doctor book" has been classified as a search.
C21_Witness ==
  /\ Classified
  /\ Message = "doctor book"
  /\ TargetFirst(Message)
  /\ intent = "doctor_search"

(***************************************************************************)
(* Properties of the serve handler                                         *)
(***************************************************************************)
\* The calls that classify, generate or read the directory.
CoreOps == {"detectIntent", "generateResponse", "query"}

CallsOf(ops) == {i \in DOMAIN calls : calls[i].op \in ops}

\* The request carries a JSON object whose message is missing or empty.
MissingOrEmpty ==
  /\ req.method = "POST"
  /\ req.json = "object"
  /\ req.message \in {Undefined, [t |-> "null", v |-> "null"], StringValue("")}

\* C5: a request whose message is missing or empty is answered with status
\* 400 and {error: "Message is required"}, and makes no call of detectIntent
\* or generateResponse and no directory query.
C5_MissingMessageRejected ==
  MissingOrEmpty =>
    /\ CallsOf(CoreOps) = {}
    /\ pc \notin {"classified", "querying"}
    /\ pc = "responded" =>
         /\ resp.status = 400
         /\ resp.keys = {"error"}
         /\ resp.error = "Message is required"

\* The request with the empty message has been answered with status 400.
C5_Witness ==
  /\ pc = "responded"
  /\ req.method = "POST"
  /\ req.json = "object"
  /\ req.message = StringValue("")
  /\ resp.status = 400

\* The message of the request is a string of white space only (or empty).
BlankMessage ==
  /\ req.method = "POST"
  /\ req.json = "object"
  /\ req.message.t = "string"
  /\ trim(req.message.v) = ""

\* C6 as stated: detectIntent is never invoked on an empty or white-space-only
\* message.
C6_AsStated == BlankMessage => CallsOf({"detectIntent"}) = {}

\* C6 (amended): detectIntent is never invoked on the empty message; a
\* message of white space only is not rejected with status 400 but passes on
\* to classification, where it is labelled fallback.
C6_OnlyEmptyRejected ==
  /\ (BlankMessage /\ req.message.v = "") => CallsOf({"detectIntent"}) = {}
  /\ (BlankMessage /\ req.message.v # "") =>
       /\ pc = "responded" => resp.status # 400
       /\ pc = "classified" =>
            /\ calls[Len(calls)] = Call("detectIntent", req.message.v, "")
            /\ intent = "fallback"

\* A message of white space only has been classified.
C6_Witness ==
  /\ BlankMessage
  /\ req.message.v # ""
  /\ pc = "classified"
  /\ intent = "fallback"

\* The handler has returned a success response.
Succeeded == pc = "responded" /\ req.method = "POST" /\ resp.status = 200

\* C7: a success response has the shape {intent, response}, its intent is
\* detectIntent(message), one of the eight labels, and its response is
\* generateResponse for that intent, the message and what the directory
\* returned.
C7_SuccessShape ==
  Succeeded =>
    /\ resp.keys = {"intent", "response"}
    /\ req.message.t = "string"
    /\ resp.intent = detectIntent(req.message.v)
    /\ resp.intent \in Intents
    /\ resp.response = generateResponse(resp.intent, req.message.v, data)

\* A doctor search has been answered from a directory that is not empty.
C7_Witness ==
  /\ Succeeded
  /\ resp.intent = "doctor_search"
  /\ ~data.isNull
  /\ Len(data.rows) > 0

\* Something was thrown while the request was handled: the body was no JSON
\* or null, createClient threw, or detectIntent was called on a value that
\* is no string.
Faulted ==
  /\ pc = "responded"
  /\ req.method = "POST"
  /\ \/ req.json \in {"invalid", "null"}
     \/ req.json = "object" /\ ~Falsy(req.message) /\ req.message.t # "string"
     \/ calls # <<>> /\ calls[Len(calls)].op = "createClient"

\* C8: a fault becomes the status-500 response {error, intent: "error",
\* response: apology}; intent "error" occurs in no other response; the
\* handler ends with a response.
C8_FaultsBecome500 ==
  /\ Faulted =>
       /\ resp.status = 500
       /\ resp.keys = {"error", "intent", "response"}
       /\ resp.error # ""
       /\ resp.intent = "error"
       /\ resp.response = ApologyText
  /\ (resp.intent = "error" \/ resp.status = 500) => Faulted
  /\ pc = "responded" => resp.status \in {200, 400, 500}

\* detectIntent threw on a message that is no string, and the handler
\* answered with status 500.
C8_Witness ==
  /\ Faulted
  /\ req.message.t = "number"
  /\ calls[Len(calls)].op = "detectIntent"
  /\ resp.status = 500

\* The body of the request is no JSON text.
InvalidJson == req.method = "POST" /\ req.json = "invalid"

\* The message of the request is a value other than a string, null or
\* undefined.
NonStringValue ==
  /\ req.method = "POST"
  /\ req.json = "object"
  /\ req.message.t \in {"number", "boolean", "array"}

\* The values other than strings that !message lets through: every number
\* but 0, true, and every array.
TruthyNonString == NonStringValue /\ req.message.v \notin {"0", "false"}

\* The 500 response with intent "error", and never the 400 rejection.
ErrorNot400 ==
  /\ resp.status = 500
  /\ resp.intent = "error"
  /\ resp.error # "Message is required"
  /\ CallsOf({"generateResponse", "query"}) = {}

\* C22 as stated: a body that is no JSON, or a message that is any non-empty
\* value other than a string, ends in the 500 response, never in the 400
\* rejection.
C22_AsStated ==
  (pc = "responded" /\ (InvalidJson \/ NonStringValue)) => ErrorNot400

\* C22 (amended): a body that is no JSON, or a message that is a truthy value
\* other than a string (a number but 0, true, an array), ends in the 500
\* response with intent "error", never in the 400 rejection or in a success
\* response; the values 0 and false are refused with the 400 rejection.
C22_TruthyNonString500 ==
  /\ (pc = "responded" /\ (InvalidJson \/ TruthyNonString)) => ErrorNot400
  /\ (InvalidJson \/ TruthyNonString) => pc \in {"parsing", "responded"}
  /\ (pc = "responded" /\ NonStringValue /\ ~TruthyNonString) => resp = RequiredResponse

\* A body that is no JSON has been answered with the 500 response.
C22_Witness ==
  /\ pc = "responded"
  /\ InvalidJson
  /\ ErrorNot400
  /\ calls = <<Call("req.json", "", "")>>

(***************************************************************************)
(* Properties of generateResponse                                          *)
(***************************************************************************)
\* The lines of a text.
RECURSIVE Lines(_)
Lines(s) ==
  LET ends == {i \in 1..Len(s) : Char(s, i) = "\n"} IN
  IF ends = {} THEN <<s>>
  ELSE LET i == CHOOSE e \in ends : \A f \in ends : e <= f
       IN <<SubSeq(s, 1, i - 1)>> \o Lines(SubSeq(s, i + 1, Len(s)))

\* The line starts with a number, a full stop and a blank.
IsNumberedLine(l) ==
  \E k \in 1..(Len(l) - 2) :
    /\ \A j \in 1..k : Char(l, j) \in CharsOf(digitChars)
    /\ SubSeq(l, k + 1, k + 2) = ". "

StartsWith(l, prefix) == Len(l) >= Len(prefix) /\ SubSeq(l, 1, Len(prefix)) = prefix

\* The handler has answered a request labelled book_appointment.
BookingAnswered == Succeeded /\ resp.intent = "book_appointment"

\* C9: for book_appointment the reply is the unavailable-doctors message
\* when the query yields no doctors; otherwise it holds exactly N numbered
\* entries for the N doctors returned, numbered 1..N in the order returned,
\* which is the order of their names.
C9_BookListing ==
  BookingAnswered =>
    IF data.isNull \/ Len(data.rows) = 0
    THEN resp.response = NoDoctorsText
    ELSE LET numbered == SelectSeq(Lines(resp.response), IsNumberedLine) IN
         /\ resp.response # NoDoctorsText
         /\ Len(numbered) = Len(data.rows)
         /\ \A k \in 1..Len(data.rows) :
              StartsWith(numbered[k], ToString(k) \o ". Dr. " \o data.rows[k].name
                                        \o " - " \o data.rows[k].specialty)
         /\ \A i, j \in 1..Len(data.rows) :
              i < j => ~StrLess(data.rows[j].name, data.rows[i].name)
         /\ calls[Len(calls)] = Call("query", "", "name")

\* Two doctors have been listed, in the order of their names, which is not
\* the order of their insertion.
C9_Witness ==
  /\ BookingAnswered
  /\ Len(data.rows) = 2
  /\ data.rows[1] = SeedDoctors[2]
  /\ data.rows[2] = SeedDoctors[1]

\* The keywords of the specialties, in the order they are tried.
SpecialtyTable ==
  << <<"cardio", "Cardiology">>, <<"ortho", "Orthopedics">>, <<"pediat", "Pediatrics">>,
     <<"neuro", "Neurology">>, <<"general", "General Medicine">> >>

\* The specialty of the first keyword of the table that occurs in m.
ExpectedSpecialty(m) ==
  LET hits == {i \in 1..Len(SpecialtyTable) : ContainsIgnoreCase(m, SpecialtyTable[i][1])}
  IN IF hits = {} THEN ""
     ELSE SpecialtyTable[CHOOSE i \in hits : \A j \in hits : i <= j][2]

\* The rows of a sequence.
Range(q) == {q[i] : i \in DOMAIN q}

\* C10: for doctor_search the specialty filter is that of the first keyword
\* of the table occurring in the message, wherever it stands in the message;
\* without a keyword the query is unfiltered and returns the whole directory.
C10_SpecialtyFilter ==
  (intent = "doctor_search" /\ pc \in {"querying", "responded"}) =>
    LET q == calls[Len(calls)] IN
    /\ q.op = "query"
    /\ q.a = ExpectedSpecialty(Message)
    /\ q.b = ""
    /\ (pc = "responded" /\ ~data.isNull) =>
         /\ Len(data.rows) = Cardinality(Range(data.rows))
         /\ IF q.a = ""
            THEN Range(data.rows) \in Directories
            ELSE \E dir \in Directories :
                   Range(data.rows) = {d \in dir : d.specialty = q.a}

\* A search naming "general" before "cardio" is being filtered to Cardiology.
C10_Witness ==
  /\ pc = "querying"
  /\ intent = "doctor_search"
  /\ Message = "general cardiologist"
  /\ calls[Len(calls)] = Call("query", "Cardiology", "")

(***************************************************************************)
(* Determinism of detectIntent                                             *)
(***************************************************************************)
\* The label read off the message alone: "emergency" for an emergency term,
\* else the label of the first matching pattern, else "fallback".
LabelOf(m) ==
  IF EmergencyTerm(m) THEN "emergency"
  ELSE LET hits == Matching(m) IN
       IF hits = {} THEN "fallback"
       ELSE PatternOrder[CHOOSE i \in hits : \A j \in hits : i <= j]

\* The other invocation is past its call of detectIntent.
PeerClassified ==
  /\ peer.pc \in {"querying", "responded"}
  /\ peer.req.method = "POST"
  /\ peer.intent # ""

\* C11: whatever calls of detectIntent came before, in whatever order, the
\* label given to a message is a function of the message alone, and the call
\* leaves no state behind: the pattern objects are as they were when loaded.
C11_Deterministic ==
  /\ Classified => intent = LabelOf(Message)
  /\ PeerClassified => peer.intent = LabelOf(peer.req.message.v)
  /\ lastIndex = FreshIndex

\* The same message is classified a second time, after another invocation
\* classified it and while that one is still in flight, with the same label.
C11_Witness ==
  /\ Classified
  /\ PeerClassified
  /\ peer.req = req
  /\ peer.intent = intent
  /\ intent = "greeting"

(***************************************************************************)
(* Worked examples of detectIntent                                         *)
(***************************************************************************)
Examples ==
  {<<"I want to book an appointment", "book_appointment">>,
   <<"I have severe chest pain and need an appointment", "emergency">>,
   <<"hello", "greeting">>,
   <<"when do you open", "faq_hours">>,
   <<"xyz nonsense", "fallback">>}

\* C12: each of the five example messages is given the label stated for it.
C12_Examples ==
  Classified => \A ex \in Examples : Message = ex[1] => intent = ex[2]

\* The example with both an emergency phrase and a booking word was classified.
C12_Witness ==
  /\ Classified
  /\ Message = "I have severe chest pain and need an appointment"
  /\ intent = "emergency"
  /\ <<Message, intent>> \in Examples

(***************************************************************************)
(* Use of the doctor directory                                             *)
(***************************************************************************)
\* The calls an invocation can make; "query" is
\* from("doctors").select("*") with its filter and order, a read.
ReadOnlyOps == {"req.json", "createClient", "detectIntent", "generateResponse", "query"}

Queries == CallsOf({"query"})

\* C13: an invocation queries the directory at most once, and only when its
\* label is book_appointment or doctor_search: a request answered with 400
\* or a preflight makes no query, a failed query is not tried again, and no
\* call writes to the directory.
C13_QueryFrame ==
  /\ Cardinality(Queries) <= 1
  /\ Queries # {} => intent \in {"book_appointment", "doctor_search"}
  /\ (pc = "responded" /\ (resp.status = 400 \/ req.method = "OPTIONS")) => Queries = {}
  /\ (Succeeded /\ data.isNull) => Cardinality(Queries) <= 1
  /\ \A i \in DOMAIN calls : calls[i].op \in ReadOnlyOps

\* A doctor search whose one query failed has been answered.
C13_Witness ==
  /\ Succeeded
  /\ intent = "doctor_search"
  /\ data.isNull
  /\ Cardinality(Queries) = 1

(***************************************************************************)
(* Independence of invocations                                             *)
(***************************************************************************)
\* The success response that follows from a message and from what the
\* invocation's own query resolved to.
OwnResponse(m, d) ==
  SuccessResponse(LabelOf(m), generateResponse(LabelOf(m), m, d))

PeerSucceeded ==
  peer.pc = "responded" /\ peer.req.method = "POST" /\ peer.resp.status = 200

\* C14: with two invocations interleaved in any way, the {intent, response}
\* of each is that of its own message and of the result of its own query,
\* and that result is one its own query can resolve to.
C14_Independent ==
  /\ Succeeded =>
       /\ resp = OwnResponse(Message, data)
       /\ intent \in DirectoryIntents =>
            data \in QueryResults(intent, SearchSpecialty(Message))
  /\ PeerSucceeded =>
       /\ peer.resp = OwnResponse(peer.req.message.v, peer.data)
       /\ peer.intent \in DirectoryIntents =>
            peer.data \in QueryResults(peer.intent, SearchSpecialty(peer.req.message.v))

\* Two invocations with the same message whose queries saw different
\* directory contents have both been answered, each from its own result.
C14_Witness ==
  /\ Succeeded
  /\ PeerSucceeded
  /\ intent = "doctor_search"
  /\ peer.req = req
  /\ peer.data # data
  /\ peer.resp # resp

(***************************************************************************)
(* Failure of the directory lookup                                         *)
(***************************************************************************)
\* The query of the invocation resolved without data: the lookup failed.
LookupFailed ==
  /\ pc = "responded"
  /\ req.method = "POST"
  /\ Queries # {}
  /\ data.isNull

\* C15: a failed lookup is answered exactly as an empty result: the
\* unavailable-doctors message for book_appointment, the could-not-find
\* message for doctor_search, in a success response with the classified
\* intent, never the status-500 error response.
C15_FailureAsEmpty ==
  LookupFailed =>
    /\ resp = SuccessResponse(intent, generateResponse(intent, Message, Data(<<>>)))
    /\ resp.status = 200
    /\ resp.intent = detectIntent(Message)
    /\ resp.intent \in {"book_appointment", "doctor_search"}
    /\ resp.response =
         (IF intent = "book_appointment" THEN NoDoctorsText ELSE NotFoundText)
    /\ "error" \notin resp.keys

\* A booking request whose lookup failed has been answered.
C15_Witness ==
  /\ LookupFailed
  /\ intent = "book_appointment"
  /\ resp.response = NoDoctorsText

(***************************************************************************)
(* The emergency alert of the symptom_triage case                          *)
(***************************************************************************)
\* m holds one of the emergency phrases, letter case ignored.
HoldsPhrase(m) == \E phrase \in emergencySymptoms : ContainsIgnoreCase(m, phrase)

\* C16: through the handler the emergency alert of the symptom_triage case
\* is never returned: a message labelled symptom_triage holds no emergency
\* phrase, and its reply is always the triage-deferral message.
C16_AlertUnreachable ==
  /\ (Classified /\ intent = "symptom_triage") => ~HoldsPhrase(Message)
  /\ (Succeeded /\ resp.intent = "symptom_triage") =>
       /\ ~HoldsPhrase(Message)
       /\ resp.response = TriageText
  /\ pc = "responded" => resp.response # EmergencyAlertText

\* A message about a symptom that is no emergency phrase has been answered.
C16_Witness ==
  /\ Succeeded
  /\ resp.intent = "symptom_triage"
  /\ Message = "fever"
  /\ resp.response = TriageText

(***************************************************************************)
(* The symptom_triage case of generateResponse                             *)
(***************************************************************************)
\* generateResponse has returned for the label it was called with.
Generated(label) == pc = "responded" /\ intent = label

\* C17: called with the label symptom_triage, generateResponse returns the
\* emergency alert exactly when the message holds an emergency phrase, letter
\* case ignored, and the triage-deferral message otherwise; it makes no query.
C17_TriageCase ==
  Generated("symptom_triage") =>
    /\ HoldsPhrase(Message) => resp.response = EmergencyAlertText
    /\ ~HoldsPhrase(Message) => resp.response = TriageText
    /\ resp.response \in {EmergencyAlertText, TriageText}
    /\ EmergencyAlertText # TriageText
    /\ Queries = {}
    /\ data = NullData

\* The alert has been returned for a phrase typed in capitals.
C17_Witness ==
  /\ Generated("symptom_triage")
  /\ Message = "I have CHEST PAIN"
  /\ resp.response = EmergencyAlertText

(***************************************************************************)
(* The doctor_search case of generateResponse                              *)
(***************************************************************************)
\* The five specialties the could-not-find message names.
SpecialtyNames == {SpecialtyTable[i][2] : i \in 1..Len(SpecialtyTable)}

\* The line opens the block of a doctor.
IsBulletLine(l) == StartsWith(l, "* Dr. ")

\* The place of the first line of the k-th block among the lines of the
\* reply: a header, an empty line, then four lines for each doctor.
BlockAt(k) == 4 * k - 1

\* C18: for doctor_search the reply is the could-not-find message, which
\* names the five specialties, when the query yields no doctors; otherwise
\* it is a header, naming the specialty when a filter was applied and generic
\* when none was, followed by one bulleted block for each doctor returned.
C18_SearchListing ==
  Generated("doctor_search") =>
    IF data.isNull \/ Len(data.rows) = 0
    THEN /\ resp.response = NotFoundText
         /\ \A name \in SpecialtyNames : includes(resp.response, name)
    ELSE LET lines == Lines(resp.response)
             bullets == SelectSeq(lines, IsBulletLine)
             filter == ExpectedSpecialty(Message)
         IN /\ resp.response # NotFoundText
            /\ calls[Len(calls)] = Call("query", filter, "")
            /\ lines[1] = (IF filter # ""
                           THEN "Here are our " \o filter \o " specialists:"
                           ELSE "Here are our available doctors:")
            /\ Len(bullets) = Len(data.rows)
            /\ \A k \in 1..Len(data.rows) :
                 /\ lines[BlockAt(k)] = bullets[k]
                 /\ bullets[k] = "* Dr. " \o data.rows[k].name \o " - "
                                   \o data.rows[k].specialty
                 /\ StartsWith(lines[BlockAt(k) + 1], "  Available: ")
                 /\ StartsWith(lines[BlockAt(k) + 2], "  Hours: ")

\* An unfiltered search has listed two doctors under the generic header.
C18_Witness ==
  /\ Generated("doctor_search")
  /\ ExpectedSpecialty(Message) = ""
  /\ Len(data.rows) = 2
  /\ StartsWith(resp.response, "Here are our available doctors:")

(***************************************************************************)
(* The fixed replies of generateResponse                                   *)
(***************************************************************************)
\* The labels whose reply depends neither on the message nor on the
\* directory: every label but those of the three cases above.
FixedLabels == GenLabels \ {"book_appointment", "doctor_search", "symptom_triage"}

\* The reply of a fixed label; a label without a case of its own has the
\* reply of fallback.
Template(label) ==
  CASE label = "greeting" -> GreetingText
    [] label = "faq_hours" -> HoursText
    [] label = "cancel_appointment" -> CancelText
    [] label = "emergency" -> EmergencyText
    [] OTHER -> FallbackText

\* C19: for greeting, faq_hours, cancel_appointment, emergency, fallback and
\* any label without a case the reply is the template of the label, whatever
\* the message, and no query is made; queries are made for book_appointment
\* and doctor_search alone.
C19_FixedTemplates ==
  /\ (pc = "responded" /\ intent \in FixedLabels) =>
       /\ resp.response = Template(intent)
       /\ Queries = {}
       /\ data = NullData
  /\ Queries # {} => intent \in {"book_appointment", "doctor_search"}
  /\ \A l1, l2 \in {"greeting", "faq_hours", "cancel_appointment", "emergency", "fallback"} :
       l1 # l2 => Template(l1) # Template(l2)

\* A label without a case has been answered with the reply of fallback, for
\* a message that names a doctor.
C19_Witness ==
  /\ pc = "responded"
  /\ intent = "error"
  /\ Message = "doctor"
  /\ resp.response = FallbackText

(***************************************************************************)
(* CORS                                                                    *)
(***************************************************************************)
\* The headers that let any origin call the function with the four request
\* headers of the client.
PermissiveCors ==
  {<<"Access-Control-Allow-Origin", "*">>,
   <<"Access-Control-Allow-Headers", "authorization, x-client-info, apikey, content-type">>}

\* C20: a preflight (OPTIONS) request is answered at once with the CORS
\* headers and no body, without a read of the request body, a classification
\* or a query; every other response, whether 400, success or 500, carries
\* the same CORS headers.
C20_Cors ==
  pc = "responded" =>
    /\ PermissiveCors \subseteq resp.headers
    /\ req.method = "OPTIONS" =>
         /\ resp.headers = PermissiveCors
         /\ resp.keys = {}
         /\ resp.status = 200
         /\ calls = <<>>
         /\ intent = ""
    /\ req.method # "OPTIONS" =>
         /\ resp.status \in {200, 400, 500}
         /\ resp.headers = PermissiveCors \cup {<<"Content-Type", "application/json">>}

\* A preflight request has been answered.
C20_Witness ==
  /\ pc = "responded"
  /\ req.method = "OPTIONS"
  /\ resp.headers = PermissiveCors
  /\ calls = <<>>

(***************************************************************************)
(* The conversation of the Chat page                                       *)
(***************************************************************************)
\* The welcome messages in the table messages.
WelcomeRows ==
  {k \in DOMAIN chat.dbMessages :
     /\ chat.dbMessages[k].role = "assistant"
     /\ chat.dbMessages[k].content = WelcomeText}

\* The user is signed in and had no conversation when the page was mounted.
FirstVisit == chat.path = "/" /\ chat.user = 1 /\ ~chat.hadConversation

\* C23: for a signed-in user without a conversation, the page creates no
\* more than one conversation and no more than one welcome message, also
\* when loadOrCreateConversation is started twice and its awaits interleave.
C23_OneConversation ==
  FirstVisit =>
    /\ Len(chat.dbConversations) <= 1
    /\ Cardinality(WelcomeRows) <= 1

\* Both calls of loadOrCreateConversation found no conversation, and each has
\* inserted one, with its welcome message.
C23_Witness ==
  /\ FirstVisit
  /\ Len(chat.loads) = 2
  /\ \A i \in DOMAIN chat.loads : chat.loads[i].pc = "done"
  /\ Len(chat.dbConversations) = 2
  /\ Cardinality(WelcomeRows) = 2

(***************************************************************************)
(* The assistant message of handleSend                                     *)
(***************************************************************************)
\* The assistant messages of a list other than the welcome message.
Answers(list) ==
  LET Answer(row) == row.role = "assistant" /\ row.content # WelcomeText
  IN SelectSeq(list, Answer)

\* The row carries the response and the intent of a reply to a message that
\* was sent to the chat-intent function.
FromReply(row) ==
  \E k \in DOMAIN chat.invoked :
    [intent |-> row.intent, response |-> row.content] \in InvokeReplies(chat.invoked[k])

\* handleSend is not running, and every invocation it made returned an error.
SendsFailed ==
  /\ chat.send.pc = "idle"
  /\ chat.invoked # <<>>
  /\ chat.toasts = Len(chat.invoked)

\* The message of the user is in the displayed list.
Displayed(userMessage) ==
  \E k \in DOMAIN chat.messages :
    chat.messages[k].role = "user" /\ chat.messages[k].content = userMessage

\* C24: an assistant message is stored and displayed only with the response
\* and the intent of an invocation that returned data, and not before that
\* invocation returned; after invocations that returned an error no
\* assistant message is stored or displayed, the error toast is shown, and
\* the messages of the user stay in the displayed list.
C24_AnswerAfterInvoke ==
  /\ \A k \in DOMAIN Answers(chat.dbMessages) : FromReply(Answers(chat.dbMessages)[k])
  /\ \A k \in DOMAIN Answers(chat.messages) : FromReply(Answers(chat.messages)[k])
  /\ chat.send.pc \in {"savingUser", "invoking"} =>
       Len(Answers(chat.dbMessages)) < Len(chat.invoked) \/ chat.invoked = <<>>
  /\ SendsFailed =>
       /\ Answers(chat.dbMessages) = <<>>
       /\ Answers(chat.messages) = <<>>
       /\ \A k \in DOMAIN chat.invoked : Displayed(chat.invoked[k])

\* A send has failed and its toast is up, but the message of the user is no
\* longer in the displayed list: loadMessages resolved during the send.
C24_Witness ==
  /\ chat.path = "/"
  /\ SendsFailed
  /\ chat.invoked = <<"fever">>
  /\ ~Displayed("fever")
  /\ \E i \in DOMAIN chat.loads : chat.loads[i] = [pc |-> "done", convId |-> 1]

(***************************************************************************)
(* The loading flag of handleSend                                          *)
(***************************************************************************)
\* handleSend has passed its guard and has not finished.
Sending == chat.send.pc # "idle"

\* C25: a handleSend that has passed its guard has loading true while it
\* runs and sets it back to false in the end, whether its inserts and its
\* invocation succeed or fail; with no send running loading is false.
C25_LoadingReset ==
  /\ [](Sending => chat.loading)
  /\ [](~Sending => ~chat.loading)
  /\ (Sending ~> (~Sending /\ ~chat.loading))

\* A send whose invocation failed has finished, and loading is false again.
C25_Witness ==
  /\ ~Sending
  /\ ~chat.loading
  /\ chat.invoked # <<>>
  /\ chat.toasts = Len(chat.invoked)

(***************************************************************************)
(* The guard of handleSend                                                 *)
(***************************************************************************)
\* s is empty or holds white space only.
IsBlank(s) == \A i \in 1..Len(s) : Char(s, i) \in WhiteSpace

\* s is not empty and neither starts nor ends with white space.
IsTrimmed(s) ==
  /\ Len(s) > 0
  /\ Char(s, 1) \notin WhiteSpace
  /\ Char(s, Len(s)) \notin WhiteSpace

\* The input is blank, no conversation id is set, or no user is signed in.
GuardRefuses ==
  \/ IsBlank(chat.input)
  \/ chat.conversationId = 0
  \/ chat.session = NoSession

\* The step is a call of handleSend.
SendCalled == chat'.sendCalls = chat.sendCalls + 1

\* C26: a call of handleSend with a blank input, without a conversation id
\* or without a signed-in user changes nothing: no message shown or stored,
\* no invocation, input and loading as they were. Hence every message sent
\* to the chat-intent function is trimmed and not empty.
C26_GuardedSend ==
  /\ [][(SendCalled /\ GuardRefuses) =>
          chat' = [chat EXCEPT !.sendCalls = chat.sendCalls + 1]]_vars
  /\ [](\A k \in DOMAIN chat.invoked : IsTrimmed(chat.invoked[k]))

\* handleSend has been called on an input of white space, with a
\* conversation and a session, and nothing has been sent.
C26_Witness ==
  /\ chat.sendCalls = 1
  /\ chat.input = " \n"
  /\ chat.conversationId # 0
  /\ chat.session # NoSession
  /\ chat.invoked = <<>>
  /\ chat.send = IdleSend
  /\ ~chat.loading

(***************************************************************************)
(* Properties of the Admin page                                            *)
(***************************************************************************)
LoadStarted == admin.load.pc # "idle"

CheckRefused == admin.check.pc \in {"denied", "thrown"}

DataDisplayed == admin.appointments # <<>> \/ admin.conversations # <<>>

\* C27: loadData is started only after checkAdminAccess has found an admin
\* row in user_roles for the user of the session getSession delivered, who
\* is the user of the session the mounted page holds; when the lookup
\* delivers no row or throws, the page has navigated to /auth, loadData was
\* not started and no appointment or conversation is held for display,
\* whichever of getSession and onAuthStateChange came first.
C27_LoadAfterAdminRow ==
  /\ (LoadStarted \/ DataDisplayed) =>
       /\ admin.check.pc = "granted"
       /\ admin.check.data = AdminRow
       /\ admin.check.userId \in auth.roles
       /\ admin.mounted => admin.check.userId = admin.session
  /\ CheckRefused =>
       /\ admin.check.data = (IF admin.check.pc = "denied" THEN NullRow ELSE NoLookup)
       /\ auth.path = "/auth"
       /\ ~admin.mounted
       /\ admin.load = IdleLoad
       /\ ~DataDisplayed

\* Witness of C27: getSession and onAuthStateChange have both called back,
\* the check found the admin row and loadData has put the rows of both
\* tables on the page.
C27_Witness ==
  /\ admin.mounted
  /\ admin.pending = {}
  /\ admin.check.pc = "granted"
  /\ admin.load.pc = "done"
  /\ admin.appointments = <<1, 2>>
  /\ admin.conversations = <<1>>
  /\ ~admin.loading

(***************************************************************************)
(* Properties of handleAdminSignIn                                         *)
(***************************************************************************)
SignInIdle == auth.signIn.pc = "idle"

TypeOK ==
  /\ pc \in {"idle", "parsing", "classified", "querying", "responded"}
  /\ req \in Requests \cup {NoRequest}
  /\ resp.status \in {0, 200, 400, 500}
  /\ lastIndex \in [DOMAIN intentPatterns -> Nat]
  /\ peer.pc \in Suspended
====
